---- MODULE Spec2Model ----
(***************************************************************************)
(* Model of src/script.js (class SoilAnalyzer and the two globals).        *)
(*                                                                         *)
(* Numbers.  JavaScript numbers are modelled as exact rationals held as    *)
(* integers in a fixed unit per quantity; every input is taken from a grid *)
(* on which all products of the source's formulas are exact in that unit:  *)
(*   data.pH             quarters        (27 is pH 6.75)                   *)
(*   data.temperature    units of 5 C    (5 is 25 C)                       *)
(*   data.moisture       percent                                           *)
(*   data.ec             tenths          (12 is 1.2 dS/m)                  *)
(*   data.organicCarbon  fifths          (11 is 2.2 %)                     *)
(*   Math.random()       thousandths     (u stands for u/1000, u < 1000)   *)
(*   calculateNitrogen/Phosphorus/Potassium   1/8000                       *)
(*   nitrogen, phosphorus, potassium          1/NutrientUnit               *)
(*   soilHealth  1/HealthUnit,  fertilityIndex  1/FertilityUnit            *)
(*   every rounded field of the result        tenths                       *)
(*   getParameterStatus: value and bands      hundredths                   *)
(* NaN is the one non-real number the code can produce from real inputs;   *)
(* it is a distinguished value that every arithmetic step propagates and   *)
(* every comparison answers FALSE for, as in JavaScript.                   *)
(***************************************************************************)
EXTENDS Integers, Sequences, FiniteSets

VARIABLES
    isAnalyzing,     \* global flag (line 7)
    currentResults,  \* global (line 8): <<>> is null, <<r>> holds result r
    form,            \* the form fields the DOM holds (what collectFormData reads)
    pending,         \* handleSubmit invocations suspended at their await, oldest first
    submits,         \* number of submit events delivered so far
    displayed,       \* ids of the submit events whose results were displayed
    data,            \* argument record of a direct generatePredictions call
    rnd,             \* the four Math.random() draws of the latest generatePredictions call
    results,         \* what that call returned: <<>> before, <<r>> after
    call,            \* a direct call of one of the pure methods: its name and arguments
    ret              \* what that call returned: <<>> before, <<v>> after

vars == <<isAnalyzing, currentResults, form, pending, submits, displayed,
          data, rnd, results, call, ret>>

----------------------------------------------------------------------------
(* JavaScript arithmetic on the modelled numbers *)

NaN == -2000000000

Abs(x) == IF x < 0 THEN -x ELSE x

Min(a, b) == IF a < b THEN a ELSE b

Max(a, b) == IF a > b THEN a ELSE b

IsNaN(x) == x = NaN

\* a < b and a >= b of JavaScript: FALSE when either side is NaN
Lt(a, b) == ~IsNaN(a) /\ ~IsNaN(b) /\ a < b

Ge(a, b) == ~IsNaN(a) /\ ~IsNaN(b) /\ a >= b

\* a * b of JavaScript
Times(a, b) == IF IsNaN(a) \/ IsNaN(b) THEN NaN ELSE a * b

\* Math.round(x * 10) / 10 for x = num/den (den even), in tenths:
\* Math.round rounds half up, also for negative arguments
Round1(num, den) == IF IsNaN(num) THEN NaN ELSE (10 * num + den \div 2) \div den

NutrientUnit == 80 * 1000

HealthUnit == 15 * NutrientUnit

FertilityUnit == 20 * NutrientUnit

\* Math.max(0, Math.min(100, x)) on a nutrient; both return NaN for a NaN argument
ClampNutrient(x) == IF IsNaN(x) THEN NaN ELSE Max(0, Min(100 * NutrientUnit, x))

----------------------------------------------------------------------------
(* generatePredictions and what it calls *)

soilModifiers ==
    [clay  |-> [n |-> 11, p |-> 9,  k |-> 10],
     sandy |-> [n |-> 8,  p |-> 11, k |-> 9],
     loam  |-> [n |-> 10, p |-> 10, k |-> 10],
     silt  |-> [n |-> 9,  p |-> 10, k |-> 11],
     peat  |-> [n |-> 12, p |-> 8,  k |-> 8],
     chalk |-> [n |-> 7,  p |-> 12, k |-> 9]]

\* soilModifiers and ranges are object literals: obj[key] also finds the
\* properties every object inherits from Object.prototype.  Each of them is a
\* truthy function or object that has no property n, p, k, low, optimal or high.
ObjectPrototypeKeys ==
    {"constructor", "toString", "toLocaleString", "valueOf", "hasOwnProperty",
     "isPrototypeOf", "propertyIsEnumerable", "__proto__"}

\* soilModifiers[soilType] || soilModifiers.loam, read through .n .p .k:
\* an inherited property is truthy, so the fallback is not taken, and its
\* .n .p .k are undefined, which the multiplications of lines 193-195 turn to NaN
modifier(soilType) ==
    IF soilType \in DOMAIN soilModifiers THEN soilModifiers[soilType]
    ELSE IF soilType \in ObjectPrototypeKeys THEN [n |-> NaN, p |-> NaN, k |-> NaN]
    ELSE soilModifiers.loam

calculateNitrogen(pH, temp, moisture, organicCarbon, u) ==
    LET base == 3 * organicCarbon
        pHFactor == 80 - 3 * Abs(pH - 27)
        tempFactor == 10 - Abs(temp - 5)
        moistureFactor == IF moisture > 40 /\ moisture < 70 THEN 11 ELSE 9
    IN  base * pHFactor * tempFactor * moistureFactor + 80 * u

calculatePhosphorus(pH, ec, organicCarbon, temp, u) ==
    LET base == 8 * organicCarbon + 5 * ec
        pHFactor == IF pH < 28 THEN 48 ELSE 40 - (pH - 28)
        tempFactor == IF temp > 4 THEN 11 ELSE 9
    IN  4 * base * pHFactor * tempFactor + 120 * u

calculatePotassium(pH, ec, moisture, soilType, u) ==
    LET base == 3 * ec + moisture
        pHFactor == IF pH > 24 /\ pH < 32 THEN 11 ELSE 9
        typeFactor == IF soilType = "clay" THEN 12 ELSE 10
    IN  40 * base * pHFactor * typeFactor + 96 * u

calculateSoilHealth(n, p, k, pH, organicCarbon) ==
    IF IsNaN(n) \/ IsNaN(p) \/ IsNaN(k) THEN NaN
    ELSE LET nutrientBalance == 2 * (n + p + k)
             pHScore == 180000 * (200 - Abs(5 * pH - 136))
             organicScore == 360000 * Min(5 * organicCarbon, 100)
         IN  nutrientBalance + pHScore + organicScore

calculateFertilityIndex(n, p, k) ==
    IF IsNaN(n) \/ IsNaN(p) \/ IsNaN(k) THEN NaN
    ELSE 8 * n + 7 * p + 5 * k

\* assessRisks with nitrogen <= 30 where the code has nitrogen < 30
assessRisksInclusive(d, nutrients) ==
    LET add(c, label) == IF c THEN <<label>> ELSE <<>>
        risks == add(d.pH < 22, "Soil acidity")
              \o add(d.pH > 34, "Soil alkalinity")
              \o add(d.ec > 25, "High salinity")
              \o add(Lt(nutrients.nitrogen, 30 * NutrientUnit + 1), "Nitrogen deficiency")
              \o add(Lt(nutrients.phosphorus, 25 * NutrientUnit), "Phosphorus deficiency")
              \o add(Lt(nutrients.potassium, 35 * NutrientUnit), "Potassium deficiency")
    IN  IF Len(risks) > 0 THEN risks ELSE <<"Low risk">>

assessRisks(d, nutrients) ==
    LET add(c, label) == IF c THEN <<label>> ELSE <<>>
        risks == add(d.pH < 22, "Soil acidity")
              \o add(d.pH > 34, "Soil alkalinity")
              \o add(d.ec > 25, "High salinity")
              \o add(Lt(nutrients.nitrogen, 30 * NutrientUnit), "Nitrogen deficiency")
              \o add(Lt(nutrients.phosphorus, 25 * NutrientUnit), "Phosphorus deficiency")
              \o add(Lt(nutrients.potassium, 35 * NutrientUnit), "Potassium deficiency")
    IN  IF Len(risks) > 0 THEN risks ELSE <<"Low risk">>

\* avgScore = (soilHealth + fertilityIndex) / 2 in units of 1/(8 * HealthUnit)
avgScore(soilHealth, fertilityIndex) ==
    IF IsNaN(soilHealth) \/ IsNaN(fertilityIndex) THEN NaN
    ELSE 4 * soilHealth + 3 * fertilityIndex

\* assessCropSuitability with avgScore > 80 where the code has avgScore >= 80
assessCropSuitabilityStrict(soilHealth, fertilityIndex) ==
    LET avg == avgScore(soilHealth, fertilityIndex)
    IN  IF Ge(avg, 80 * 8 * HealthUnit + 1) THEN "Excellent for all crops"
        ELSE IF Ge(avg, 65 * 8 * HealthUnit) THEN "Good for most crops"
        ELSE IF Ge(avg, 50 * 8 * HealthUnit) THEN "Suitable with amendments"
        ELSE "Requires significant improvement"

assessCropSuitability(soilHealth, fertilityIndex) ==
    LET avg == avgScore(soilHealth, fertilityIndex)
    IN  IF Ge(avg, 80 * 8 * HealthUnit) THEN "Excellent for all crops"
        ELSE IF Ge(avg, 65 * 8 * HealthUnit) THEN "Good for most crops"
        ELSE IF Ge(avg, 50 * 8 * HealthUnit) THEN "Suitable with amendments"
        ELSE "Requires significant improvement"

Lime == [type |-> "pH Correction", action |-> "Apply lime to raise pH", priority |-> "High"]

Sulfur == [type |-> "pH Correction", action |-> "Apply sulfur to lower pH", priority |-> "High"]

NitrogenRec ==
    [type |-> "Nitrogen", action |-> "Apply nitrogen fertilizer or compost", priority |-> "Medium"]

PhosphorusRec ==
    [type |-> "Phosphorus", action |-> "Apply phosphate fertilizer", priority |-> "Medium"]

PotassiumRec ==
    [type |-> "Potassium", action |-> "Apply potash fertilizer", priority |-> "Medium"]

OrganicRec ==
    [type |-> "Organic Matter", action |-> "Add compost or organic amendments", priority |-> "High"]

\* generateRecommendations with pH >= 8.0 where the code has pH > 8.0
generateRecommendationsSulfurAt8(d, nutrients) ==
    LET add(c, rec) == IF c THEN <<rec>> ELSE <<>>
    IN  (IF d.pH < 24 THEN <<Lime>> ELSE IF d.pH >= 32 THEN <<Sulfur>> ELSE <<>>)
        \o add(Lt(nutrients.nitrogen, 40 * NutrientUnit), NitrogenRec)
        \o add(Lt(nutrients.phosphorus, 30 * NutrientUnit), PhosphorusRec)
        \o add(Lt(nutrients.potassium, 40 * NutrientUnit), PotassiumRec)
        \o add(d.organicCarbon < 10, OrganicRec)

\* generateRecommendations with pH < 5.0 where the code has pH < 6.0
generateRecommendationsLateLime(d, nutrients) ==
    LET add(c, rec) == IF c THEN <<rec>> ELSE <<>>
    IN  (IF d.pH < 20 THEN <<Lime>> ELSE IF d.pH > 32 THEN <<Sulfur>> ELSE <<>>)
        \o add(Lt(nutrients.nitrogen, 40 * NutrientUnit), NitrogenRec)
        \o add(Lt(nutrients.phosphorus, 30 * NutrientUnit), PhosphorusRec)
        \o add(Lt(nutrients.potassium, 40 * NutrientUnit), PotassiumRec)
        \o add(d.organicCarbon < 10, OrganicRec)

generateRecommendations(d, nutrients) ==
    LET add(c, rec) == IF c THEN <<rec>> ELSE <<>>
    IN  (IF d.pH < 24 THEN <<Lime>> ELSE IF d.pH > 32 THEN <<Sulfur>> ELSE <<>>)
        \o add(Lt(nutrients.nitrogen, 40 * NutrientUnit), NitrogenRec)
        \o add(Lt(nutrients.phosphorus, 30 * NutrientUnit), PhosphorusRec)
        \o add(Lt(nutrients.potassium, 40 * NutrientUnit), PotassiumRec)
        \o add(d.organicCarbon < 10, OrganicRec)

\* lines 193-200: the three nutrients after the soil-type modifier and the clamp
clampedNutrients(d, r) ==
    LET m == modifier(d.soilType)
    IN  [nitrogen |-> ClampNutrient(Times(
            calculateNitrogen(d.pH, d.temperature, d.moisture, d.organicCarbon, r[1]), m.n)),
         phosphorus |-> ClampNutrient(Times(
            calculatePhosphorus(d.pH, d.ec, d.organicCarbon, d.temperature, r[2]), m.p)),
         potassium |-> ClampNutrient(Times(
            calculatePotassium(d.pH, d.ec, d.moisture, d.soilType, r[3]), m.k))]

\* the confidence with Math.random() * 20 where the code has Math.random() * 15
confidenceOfWide(u) == (17000 + 4 * u + 10) \div 20

\* Math.round((85 + Math.random() * 15) * 10) / 10, in tenths
confidenceOf(u) == (17000 + 3 * u + 10) \div 20

\* generatePredictions with assessCropSuitability given the rounded scores
generatePredictionsRounded(d, r) ==
    LET nut == clampedNutrients(d, r)
        soilHealth ==
            calculateSoilHealth(nut.nitrogen, nut.phosphorus, nut.potassium, d.pH, d.organicCarbon)
        fertilityIndex == calculateFertilityIndex(nut.nitrogen, nut.phosphorus, nut.potassium)
        roundedHealth == Round1(soilHealth, HealthUnit)
        roundedFertility == Round1(fertilityIndex, FertilityUnit)
    IN  [nitrogen |-> Round1(nut.nitrogen, NutrientUnit),
         phosphorus |-> Round1(nut.phosphorus, NutrientUnit),
         potassium |-> Round1(nut.potassium, NutrientUnit),
         soilHealth |-> roundedHealth,
         fertilityIndex |-> roundedFertility,
         riskAssessment |-> assessRisks(d, nut),
         cropSuitability |->
            assessCropSuitability(Times(roundedHealth, HealthUnit \div 10),
                                  Times(roundedFertility, FertilityUnit \div 10)),
         confidence |-> confidenceOf(r[4]),
         recommendations |-> generateRecommendations(d, nut)]

\* r is the sequence of the four Math.random() draws, in call order
generatePredictions(d, r) ==
    LET nut == clampedNutrients(d, r)
        soilHealth ==
            calculateSoilHealth(nut.nitrogen, nut.phosphorus, nut.potassium, d.pH, d.organicCarbon)
        fertilityIndex == calculateFertilityIndex(nut.nitrogen, nut.phosphorus, nut.potassium)
    IN  [nitrogen |-> Round1(nut.nitrogen, NutrientUnit),
         phosphorus |-> Round1(nut.phosphorus, NutrientUnit),
         potassium |-> Round1(nut.potassium, NutrientUnit),
         soilHealth |-> Round1(soilHealth, HealthUnit),
         fertilityIndex |-> Round1(fertilityIndex, FertilityUnit),
         riskAssessment |-> assessRisks(d, nut),
         cropSuitability |-> assessCropSuitability(soilHealth, fertilityIndex),
         confidence |-> confidenceOf(r[4]),
         recommendations |-> generateRecommendations(d, nut)]

----------------------------------------------------------------------------
(* getParameterStatus *)

ranges ==
    [pH            |-> [low |-> 550,  optimal |-> 700,  high |-> 850],
     temperature   |-> [low |-> 1800, optimal |-> 2500, high |-> 3000],
     moisture      |-> [low |-> 3000, optimal |-> 5000, high |-> 7000],
     ec            |-> [low |-> 50,   optimal |-> 120,  high |-> 200],
     organicCarbon |-> [low |-> 100,  optimal |-> 250,  high |-> 350]]

\* !ranges[parameter] is false for an inherited property too; destructuring it
\* gives low = optimal = high = undefined, so value < low, value > high and
\* Math.abs(value - optimal) <= optimal * 0.2 (NaN <= NaN) are all false
getParameterStatus(parameter, value) ==
    IF parameter \in DOMAIN ranges THEN
        LET low == ranges[parameter].low
            optimal == ranges[parameter].optimal
            high == ranges[parameter].high
        IN  IF value < low THEN "Low"
            ELSE IF value > high THEN "High"
            ELSE IF 10 * Abs(value - optimal) <= 2 * optimal THEN "Optimal"
            ELSE "Good"
    ELSE IF parameter \in ObjectPrototypeKeys THEN "Good"
    ELSE "Unknown"

----------------------------------------------------------------------------
(* Bounds *)

\* Math.random() is sampled at DrawSteps + 1 points from 0 to 0.999
DrawSteps == 2

\* submit events delivered to the form in one behaviour
MaxSubmits == 3

RandomDraws == {(999 * i) \div DrawSteps : i \in 0..DrawSteps}

Draws == RandomDraws \X RandomDraws \X RandomDraws \X RandomDraws

\* the draws sampled in the page's behaviours, where nothing depends on the noise
PageDraws == {<<u, u, u, u>> : u \in RandomDraws}

SoilTypes == {"clay", "sandy", "loam", "silt", "peat", "chalk", "gravel", "constructor"}

\* argument records of generatePredictions: in-range values, the boundaries of
\* the physical ranges, and values outside them (pH 20, 40 C, 5 % carbon)
Inputs ==
    [pH : {20, 27, 30, 35, 80},
     temperature : {3, 5, 8},
     moisture : {0, 50, 100},
     ec : {0, 12, 30},
     organicCarbon : {0, 11, 25},
     soilType : SoilTypes]

NoData == [pH |-> 0, temperature |-> 0, moisture |-> 0, ec |-> 0, organicCarbon |-> 0,
           soilType |-> ""]

NoCall == [fn |-> "none"]

----------------------------------------------------------------------------
(* SpecPredict: direct calls of generatePredictions *)

InitPredict ==
    /\ data \in Inputs
    /\ rnd = <<0, 0, 0, 0>>
    /\ results = <<>>
    /\ isAnalyzing = FALSE
    /\ currentResults = <<>>
    /\ form = NoData
    /\ pending = <<>>
    /\ submits = 0
    /\ displayed = {}
    /\ call = NoCall
    /\ ret = <<>>

\* one call of generatePredictions(data) with one outcome of its four draws; a
\* repeated call with the same input is another behaviour from the same state
Predict ==
    /\ results = <<>>
    /\ \E r \in Draws :
        /\ rnd' = r
        /\ results' = <<generatePredictions(data, r)>>
    /\ UNCHANGED <<isAnalyzing, currentResults, form, pending, submits, displayed,
                   data, call, ret>>

NextPredict == Predict

SpecPredict == InitPredict /\ [][NextPredict]_vars

----------------------------------------------------------------------------
(* SpecCalls: direct calls of the pure methods *)

\* the data records of the direct calls: every side of every pH, EC and
\* organic-carbon threshold of assessRisks and generateRecommendations
RuleData ==
    [pH : {21, 22, 23, 24, 25, 31, 32, 33, 34, 35},
     temperature : {5},
     moisture : {50},
     ec : {25, 26},
     organicCarbon : {9, 10},
     soilType : {"loam"}]

\* nutrient values on both sides of the risk and the recommendation threshold,
\* and the NaN that generatePredictions can pass
Around(t1, t2) == {t1 * NutrientUnit - 1, t1 * NutrientUnit,
                   t2 * NutrientUnit - 1, t2 * NutrientUnit, NaN}

RuleNutrients ==
    [nitrogen : Around(30, 40), phosphorus : Around(25, 30), potassium : Around(35, 40)]

\* scores on both sides of every band boundary of assessCropSuitability
Scores(unit) == {0, 50 * unit - 1, 50 * unit, 65 * unit - 1, 65 * unit,
                 80 * unit - 1, 80 * unit, 80 * unit + 1, 100 * unit, NaN}

ParameterNames ==
    {"pH", "temperature", "moisture", "ec", "organicCarbon",
     "unknown", "nitrogen", "toString", "constructor"}

\* values (hundredths) on both sides of every boundary of every band
StatusValues ==
    UNION { LET b == ranges[q]
                tol == b.optimal \div 5
            IN  {b.low - 1, b.low, b.optimal - tol - 1, b.optimal - tol, b.optimal,
                 b.optimal + tol, b.optimal + tol + 1, b.high, b.high + 1}
            : q \in DOMAIN ranges }
    \cup {-100, 0, 400, 500, 1200}

Calls ==
    [fn : {"assessRisks", "generateRecommendations"}, d : RuleData, nutrients : RuleNutrients]
    \cup [fn : {"assessCropSuitability"},
          soilHealth : Scores(HealthUnit), fertilityIndex : Scores(FertilityUnit)]
    \cup [fn : {"getParameterStatus"}, parameter : ParameterNames, value : StatusValues]

InitCalls ==
    /\ call \in Calls
    /\ ret = <<>>
    /\ data = NoData
    /\ rnd = <<0, 0, 0, 0>>
    /\ results = <<>>
    /\ isAnalyzing = FALSE
    /\ currentResults = <<>>
    /\ form = NoData
    /\ pending = <<>>
    /\ submits = 0
    /\ displayed = {}

Returns(v) ==
    /\ ret = <<>>
    /\ ret' = <<v>>
    /\ UNCHANGED <<isAnalyzing, currentResults, form, pending, submits, displayed,
                   data, rnd, results, call>>

CallAssessRisks ==
    /\ call.fn = "assessRisks"
    /\ Returns(assessRisks(call.d, call.nutrients))

CallGenerateRecommendations ==
    /\ call.fn = "generateRecommendations"
    /\ Returns(generateRecommendations(call.d, call.nutrients))

CallAssessCropSuitability ==
    /\ call.fn = "assessCropSuitability"
    /\ Returns(assessCropSuitability(call.soilHealth, call.fertilityIndex))

CallGetParameterStatus ==
    /\ call.fn = "getParameterStatus"
    /\ Returns(getParameterStatus(call.parameter, call.value))

NextCalls ==
    \/ CallAssessRisks
    \/ CallGenerateRecommendations
    \/ CallAssessCropSuitability
    \/ CallGetParameterStatus

SpecCalls == InitCalls /\ [][NextCalls]_vars

----------------------------------------------------------------------------
(* Spec: the page: the form, the submit handler and its timer *)

\* what resetForm writes into the fields (selectedIndex 1 is the sandy option)
ResetDefaults ==
    [pH |-> 26, temperature |-> 5, moisture |-> 50, ec |-> 12, organicCarbon |-> 11,
     soilType |-> "sandy"]

\* the field values the user can set in the model; "" is an option without a value
FormStates ==
    {ResetDefaults,
     [pH |-> 20, temperature |-> 3, moisture |-> 0, ec |-> 30, organicCarbon |-> 0,
      soilType |-> ""],
     [pH |-> 35, temperature |-> 8, moisture |-> 100, ec |-> 12, organicCarbon |-> 25,
      soilType |-> "clay"]}

\* the fields exist and hold numbers, so only soilType can take its default
collectFormData(f) ==
    [pH |-> f.pH, temperature |-> f.temperature, moisture |-> f.moisture, ec |-> f.ec,
     organicCarbon |-> f.organicCarbon,
     soilType |-> IF f.soilType = "" THEN "loam" ELSE f.soilType]

Init ==
    /\ isAnalyzing = FALSE
    /\ currentResults = <<>>
    /\ form \in FormStates
    /\ pending = <<>>
    /\ submits = 0
    /\ displayed = {}
    /\ data = NoData
    /\ rnd = <<0, 0, 0, 0>>
    /\ results = <<>>
    /\ call = NoCall
    /\ ret = <<>>

\* the user moves a slider or picks a soil type
InputChange ==
    /\ \E f \in FormStates : f # form /\ form' = f
    /\ UNCHANGED <<isAnalyzing, currentResults, pending, submits, displayed,
                   data, rnd, results, call, ret>>

\* resetForm: the fields get their defaults; clearResults rewrites page text
\* only and leaves isAnalyzing and currentResults alone
resetForm ==
    /\ form' = ResetDefaults
    /\ UNCHANGED <<isAnalyzing, currentResults, pending, submits, displayed,
                   data, rnd, results, call, ret>>

\* handleSubmit without its guard "if (isAnalyzing) return"
handleSubmitUnguarded ==
    /\ submits < MaxSubmits
    /\ submits' = submits + 1
    /\ isAnalyzing' = TRUE
    /\ pending' = Append(pending, [id |-> submits + 1, formData |-> collectFormData(form)])
    /\ UNCHANGED <<currentResults, form, displayed, data, rnd, results, call, ret>>

\* handleSubmit up to its first await: a submit event is delivered
handleSubmit ==
    /\ submits < MaxSubmits
    /\ submits' = submits + 1
    /\ IF isAnalyzing
       THEN UNCHANGED <<isAnalyzing, pending>>
       ELSE /\ isAnalyzing' = TRUE
            /\ pending' = Append(pending, [id |-> submits + 1,
                                           formData |-> collectFormData(form)])
    /\ UNCHANGED <<currentResults, form, displayed, data, rnd, results, call, ret>>

\* generatePredictions(formData, r), tabulated once for every record that
\* collectFormData can return and every sampled outcome of the draws
PagePredictions ==
    [f \in {collectFormData(x) : x \in FormStates}, r \in PageDraws |->
        generatePredictions(f, r)]

RemoveAt(seq, i) == SubSeq(seq, 1, i - 1) \o SubSeq(seq, i + 1, Len(seq))

\* handleSubmit from the timer of simulateAIProcessing to its end: the rest
\* runs in microtasks, which no event interleaves with
resume(i) ==
    /\ \E r \in PageDraws :
        /\ rnd' = r
        /\ currentResults' = <<PagePredictions[pending[i].formData, r]>>
    /\ displayed' = displayed \cup {pending[i].id}
    /\ isAnalyzing' = FALSE
    /\ pending' = RemoveAt(pending, i)
    /\ UNCHANGED <<form, submits, data, results, call, ret>>

TimerFires == \E i \in 1..Len(pending) : resume(i)

Next ==
    \/ InputChange
    \/ resetForm
    \/ handleSubmit
    \/ TimerFires

\* every timer set by simulateAIProcessing fires after at most 3 seconds
Spec == Init /\ [][Next]_vars /\ WF_vars(TimerFires)

----------------------------------------------------------------------------
(* Claims about the pure methods, under SpecCalls *)

Has(seq, x) == \E i \in 1..Len(seq) : seq[i] = x

Returned(fn) == ret # <<>> /\ call.fn = fn

RiskOrder ==
    <<"Soil acidity", "Soil alkalinity", "High salinity",
      "Nitrogen deficiency", "Phosphorus deficiency", "Potassium deficiency">>

\* the condition the claim attaches to each risk label
RiskCondition(l, d, nut) ==
    CASE l = "Soil acidity" -> d.pH < 22
      [] l = "Soil alkalinity" -> d.pH > 34
      [] l = "High salinity" -> d.ec > 25
      [] l = "Nitrogen deficiency" -> Lt(nut.nitrogen, 30 * NutrientUnit)
      [] l = "Phosphorus deficiency" -> Lt(nut.phosphorus, 25 * NutrientUnit)
      [] l = "Potassium deficiency" -> Lt(nut.potassium, 35 * NutrientUnit)

\* C3: assessRisks returns exactly the labels whose condition is true, in the
\* fixed order acidity, alkalinity, salinity, nitrogen, phosphorus, potassium,
\* and returns the single "Low risk" if and only if no condition is true; in
\* particular it does whenever nitrogen >= 30, phosphorus >= 25,
\* potassium >= 35, 5.5 <= pH <= 8.5 and EC <= 2.5.
C3_ExactRiskLabels ==
    Returned("assessRisks") =>
        LET d == call.d
            nut == call.nutrients
            True(l) == RiskCondition(l, d, nut)
            expected == SelectSeq(RiskOrder, True)
        IN  /\ expected # <<>> => ret[1] = expected
            /\ ret[1] = <<"Low risk">> <=> expected = <<>>
            /\ ( /\ Ge(nut.nitrogen, 30 * NutrientUnit)
                 /\ Ge(nut.phosphorus, 25 * NutrientUnit)
                 /\ Ge(nut.potassium, 35 * NutrientUnit)
                 /\ 22 <= d.pH /\ d.pH <= 34 /\ d.ec <= 25 ) => ret[1] = <<"Low risk">>

C3_Witness ==
    /\ Returned("assessRisks")
    /\ ret[1] = <<"Soil acidity", "High salinity", "Nitrogen deficiency",
                  "Phosphorus deficiency", "Potassium deficiency">>

RecOrder == <<Lime, Sulfur, NitrogenRec, PhosphorusRec, PotassiumRec, OrganicRec>>

\* the condition the claim attaches to each recommendation
RecCondition(rec, d, nut) ==
    CASE rec = Lime -> d.pH < 24
      [] rec = Sulfur -> d.pH > 32
      [] rec = NitrogenRec -> Lt(nut.nitrogen, 40 * NutrientUnit)
      [] rec = PhosphorusRec -> Lt(nut.phosphorus, 30 * NutrientUnit)
      [] rec = PotassiumRec -> Lt(nut.potassium, 40 * NutrientUnit)
      [] rec = OrganicRec -> d.organicCarbon < 10

\* C4: generateRecommendations never emits both pH recommendations; it emits
\* the lime one exactly when pH < 6.0, the sulfur one exactly when pH > 8.0 and
\* none of type pH Correction when 6.0 <= pH <= 8.0; what it emits is, in the
\* order pH, Nitrogen, Phosphorus, Potassium, Organic Matter, one
\* recommendation per true rule, and nothing when no rule is true.
C4_Recommendations ==
    Returned("generateRecommendations") =>
        LET d == call.d
            nut == call.nutrients
            True(rec) == RecCondition(rec, d, nut)
        IN  /\ ~(Has(ret[1], Lime) /\ Has(ret[1], Sulfur))
            /\ Has(ret[1], Lime) <=> d.pH < 24
            /\ Has(ret[1], Sulfur) <=> d.pH > 32
            /\ (24 <= d.pH /\ d.pH <= 32) =>
                    \A i \in 1..Len(ret[1]) : ret[1][i].type # "pH Correction"
            /\ ret[1] = SelectSeq(RecOrder, True)
            /\ (\A i \in 1..Len(RecOrder) : ~True(RecOrder[i])) => ret[1] = <<>>

C4_Witness ==
    /\ Returned("generateRecommendations")
    /\ ret[1] = <<Lime, NitrogenRec, PhosphorusRec, PotassiumRec, OrganicRec>>

\* C5: assessCropSuitability maps avg = (soilHealth + fertilityIndex) / 2 to
\* one category with inclusive lower bounds: avg >= 80 Excellent, 65 <= avg < 80
\* Good, 50 <= avg < 65 Suitable with amendments, avg < 50 Requires significant
\* improvement; avg exactly 80 gives Excellent, avg just below 80 gives Good.
C5_SuitabilityBands ==
    Returned("assessCropSuitability") =>
        LET sh == call.soilHealth
            fi == call.fertilityIndex
            unit == 8 * HealthUnit
            avg == 4 * sh + 3 * fi
        IN  /\ ret[1] \in {"Excellent for all crops", "Good for most crops",
                           "Suitable with amendments", "Requires significant improvement"}
            /\ (~IsNaN(sh) /\ ~IsNaN(fi)) =>
                /\ avg >= 80 * unit => ret[1] = "Excellent for all crops"
                /\ (65 * unit <= avg /\ avg < 80 * unit) => ret[1] = "Good for most crops"
                /\ (50 * unit <= avg /\ avg < 65 * unit) => ret[1] = "Suitable with amendments"
                /\ avg < 50 * unit => ret[1] = "Requires significant improvement"
            /\ (sh = 80 * HealthUnit /\ fi = 80 * FertilityUnit) =>
                    ret[1] = "Excellent for all crops"
            /\ (sh = 80 * HealthUnit - 1 /\ fi = 80 * FertilityUnit) =>
                    ret[1] = "Good for most crops"

C5_Witness ==
    /\ Returned("assessCropSuitability")
    /\ call.soilHealth = 80 * HealthUnit
    /\ call.fertilityIndex = 80 * FertilityUnit
    /\ ret[1] = "Excellent for all crops"

\* the status the claim gives a value of a parameter with bands b
BandStatus(b, value) ==
    IF value < b.low THEN "Low"
    ELSE IF value > b.high THEN "High"
    ELSE IF 5 * Abs(value - b.optimal) <= b.optimal THEN "Optimal"
    ELSE "Good"

\* C6: for each of pH, temperature, moisture, ec, organicCarbon and any value,
\* getParameterStatus returns Low if value < low, else High if value > high,
\* else Optimal if |value - optimal| <= 0.2 * optimal, else Good; for any other
\* parameter name it returns Unknown.
C6_ParameterStatus ==
    Returned("getParameterStatus") =>
        IF call.parameter \in {"pH", "temperature", "moisture", "ec", "organicCarbon"}
        THEN ret[1] = BandStatus(ranges[call.parameter], call.value)
        ELSE ret[1] = "Unknown"

\* What does hold for C6: the same, for every parameter name that is not a
\* property inherited from Object.prototype.
ParameterStatusOfOrdinaryNames ==
    (Returned("getParameterStatus") /\ call.parameter \notin ObjectPrototypeKeys) =>
        IF call.parameter \in {"pH", "temperature", "moisture", "ec", "organicCarbon"}
        THEN ret[1] = BandStatus(ranges[call.parameter], call.value)
        ELSE ret[1] = "Unknown"

----------------------------------------------------------------------------
(* Claim about the page, under Spec *)

\* submit event i was accepted and its handler waits for its timer
InFlight(i) == \E j \in 1..Len(pending) : pending[j].id = i

\* C8: at most one prediction request is in flight at a time; a submit that
\* arrives while isAnalyzing is true starts no analysis and displays nothing;
\* every display is that of the one request in flight, shows the prediction for
\* the form data it collected and sets isAnalyzing back to false; every
\* accepted submit is eventually displayed with isAnalyzing false again; and a
\* submit that arrives while isAnalyzing is false is accepted.
C8_SingleFlight ==
    /\ [](Len(pending) <= 1 /\ (isAnalyzing <=> Len(pending) = 1))
    /\ [][(isAnalyzing /\ submits' = submits + 1) =>
            /\ pending' = pending
            /\ currentResults' = currentResults
            /\ displayed' = displayed
            /\ isAnalyzing']_vars
    /\ [][(displayed' # displayed) =>
            /\ Len(pending) = 1
            /\ displayed' = displayed \cup {pending[1].id}
            /\ currentResults' = <<generatePredictions(pending[1].formData, rnd')>>
            /\ ~isAnalyzing']_vars
    /\ [][(~isAnalyzing /\ submits' = submits + 1) =>
            /\ isAnalyzing'
            /\ pending' = <<[id |-> submits', formData |-> collectFormData(form)]>>]_vars
    /\ \A i \in 1..MaxSubmits : InFlight(i) ~> (i \in displayed /\ ~isAnalyzing)

\* submit 1 was displayed, submit 2 arrived during its analysis and was
\* dropped, submit 3 arrived afterwards and was displayed too
C8_Witness ==
    /\ submits = 3
    /\ displayed = {1, 3}
    /\ pending = <<>>
    /\ ~isAnalyzing
    /\ currentResults # <<>>

----------------------------------------------------------------------------
(* Claims about the result of generatePredictions, under SpecPredict *)

\* a reported value (tenths) that is a number from 0 to 100
InPercentRange(x) == ~IsNaN(x) /\ 0 <= x /\ x <= 1000

\* the suitability band of an average avg/unit: >= 80, >= 65, >= 50, else;
\* every comparison with NaN is false
BandOf(avg, unit) ==
    IF IsNaN(avg) THEN "Requires significant improvement"
    ELSE IF avg >= 80 * unit THEN "Excellent for all crops"
    ELSE IF avg >= 65 * unit THEN "Good for most crops"
    ELSE IF avg >= 50 * unit THEN "Suitable with amendments"
    ELSE "Requires significant improvement"

\* the average of the reported (rounded) soilHealth and fertilityIndex, in twentieths
ReportedAvg(r) ==
    IF IsNaN(r.soilHealth) \/ IsNaN(r.fertilityIndex) THEN NaN
    ELSE r.soilHealth + r.fertilityIndex

\* the average of the unrounded soilHealth and fertilityIndex of the call, in
\* units of 1/(8 * HealthUnit)
UnroundedAvg ==
    LET nut == clampedNutrients(data, rnd)
        sh == calculateSoilHealth(nut.nitrogen, nut.phosphorus, nut.potassium,
                                  data.pH, data.organicCarbon)
        fi == calculateFertilityIndex(nut.nitrogen, nut.phosphorus, nut.potassium)
    IN  IF IsNaN(sh) \/ IsNaN(fi) THEN NaN ELSE 4 * sh + 3 * fi

\* C1: for every input record and every noise draw, the nitrogen, phosphorus
\* and potassium of the result are numbers with 0 <= value <= 100.
C1_NutrientsInRange ==
    results # <<>> =>
        /\ InPercentRange(results[1].nitrogen)
        /\ InPercentRange(results[1].phosphorus)
        /\ InPercentRange(results[1].potassium)

\* What does hold for C1: whenever the soil type is a key of soilModifiers or
\* is not a property of any object, the three nutrients are within 0..100.
NutrientsInRangeForOrdinarySoilTypes ==
    (results # <<>> /\ data.soilType \notin ObjectPrototypeKeys) =>
        /\ InPercentRange(results[1].nitrogen)
        /\ InPercentRange(results[1].phosphorus)
        /\ InPercentRange(results[1].potassium)

\* C2: for all inputs, soilHealth and fertilityIndex of the result are within
\* 0..100 (a negative soil health is floored at 0).  Stated here for the
\* results whose soil health is a number, so that a violation is one of the
\* formula of calculateSoilHealth and not the NaN of C1.
C2_IndicesInRange ==
    (results # <<>> /\ ~IsNaN(results[1].soilHealth)) =>
        /\ InPercentRange(results[1].soilHealth)
        /\ InPercentRange(results[1].fertilityIndex)

\* What does hold for C2: fertilityIndex is within 0..100 and soilHealth is at
\* most 100 whenever they are numbers.
FertilityInRangeHealthAtMost100 ==
    (results # <<>> /\ ~IsNaN(results[1].soilHealth)) =>
        /\ InPercentRange(results[1].fertilityIndex)
        /\ results[1].soilHealth <= 1000

\* C7 as stated: the confidence of every result is at least 85 and strictly
\* less than 100.
C7_ConfidenceHalfOpen ==
    results # <<>> => (850 <= results[1].confidence /\ results[1].confidence < 1000)

\* C7 as amended: the confidence of every result is at least 85 and at most
\* 100; rounding to one decimal reaches 100.0 itself.
C7_ConfidenceClosed ==
    results # <<>> => (850 <= results[1].confidence /\ results[1].confidence <= 1000)

C7_Witness ==
    results # <<>> /\ rnd[4] = 999 /\ results[1].confidence = 1000

\* C9: in every result each risk label comes with its remediation: Soil
\* acidity with the lime recommendation, Soil alkalinity with the sulfur one,
\* and each nutrient deficiency with the recommendation of that nutrient.
C9_RisksHaveRemedies ==
    results # <<>> =>
        LET risk == results[1].riskAssessment
            recs == results[1].recommendations
        IN  /\ Has(risk, "Soil acidity") => Has(recs, Lime)
            /\ Has(risk, "Soil alkalinity") => Has(recs, Sulfur)
            /\ Has(risk, "Nitrogen deficiency") => Has(recs, NitrogenRec)
            /\ Has(risk, "Phosphorus deficiency") => Has(recs, PhosphorusRec)
            /\ Has(risk, "Potassium deficiency") => Has(recs, PotassiumRec)

C9_Witness ==
    /\ results # <<>>
    /\ Has(results[1].riskAssessment, "Soil acidity")
    /\ Has(results[1].riskAssessment, "Nitrogen deficiency")
    /\ Has(results[1].recommendations, Lime)
    /\ Has(results[1].recommendations, NitrogenRec)

\* the converse of C9 fails: this state is reachable
LowRiskWithRecommendations ==
    /\ results # <<>>
    /\ results[1].riskAssessment = <<"Low risk">>
    /\ Len(results[1].recommendations) > 0

\* C10 as stated: cropSuitability is the band of the average of the
\* soilHealth and fertilityIndex reported in the same result (after rounding).
C10_BandOfReported ==
    results # <<>> => results[1].cropSuitability = BandOf(ReportedAvg(results[1]), 20)

\* C10 as amended: cropSuitability is the band of the average of the
\* unrounded soilHealth and fertilityIndex of the call.
C10_BandOfUnrounded ==
    results # <<>> => results[1].cropSuitability = BandOf(UnroundedAvg, 8 * HealthUnit)

\* a result whose reported values average into another band than the one reported
C10_Witness ==
    /\ results # <<>>
    /\ results[1].cropSuitability # BandOf(ReportedAvg(results[1]), 20)
    /\ results[1].cropSuitability = BandOf(UnroundedAvg, 8 * HealthUnit)

====
